---- MODULE Spec2Model ----
(***************************************************************************)
(* Model of the background claim processing service                        *)
(* (frontend/lib/claimProcessingService.ts): the resumable poll loop, its  *)
(* timer and callback maps, and the single localStorage record that lets   *)
(* a later page resume the loop; and of its one consumer, the hook         *)
(* useClaimAnalysis (frontend/hooks/useClaimAnalysis.ts).                  *)
(*                                                                         *)
(* The JavaScript event loop is modelled as interleaving of run-to-        *)
(* completion steps: a public call, a timer firing, the arrival of a       *)
(* status response, the arrival of an agents response, a page reload.      *)
(* Each step runs the code from one suspension point (await / setTimeout)  *)
(* to the next.                                                            *)
(***************************************************************************)
EXTENDS Integers, Sequences, FiniteSets, Bags, TLC

\* ------------------------------------------------------------------ bounds
MaxCalls == 2       \* startPolling + resumePolling calls in one behaviour
MaxTicks == 2       \* timer delays that elapse in one behaviour
MaxReloads == 1     \* page reloads in one behaviour
MaxHookTicks == 1   \* timer delays that elapse in one behaviour of the hook

\* --------------------------------------------------------------- constants
MAX_POLL_ATTEMPTS == 75

Jobs == {"A", "B"}
Tokens == {"t1", "t2"}
NoTimer == 0
NoCallbacks == 0
NoPointer == <<>>   \* localStorage.getItem returns null
NoMessage == ""
TIMEOUT_MESSAGE == "Analysis timed out after 5 minutes. Please try again."

Bundles == 1..MaxCalls
TimerIds == 1..(MaxCalls + Cardinality(Jobs))

\* Persisted attempts a page may find in localStorage when it loads.
ResumeAttempts == {40, MAX_POLL_ATTEMPTS - 1, MAX_POLL_ATTEMPTS}

VARIABLES
    activePolling,  \* Map<string, Timeout>: claimId -> timer handle (NoTimer: no entry)
    callbacks,      \* Map<string, Callbacks>: claimId -> bundle (NoCallbacks: no entry)
    storage,        \* localStorage[STORAGE_KEY]: ActiveClaim or NoPointer
    timers,         \* pending setTimeout closures: {[id, claimId, token, attempt]}
    inflight,       \* bag of status requests awaiting their response
    agentFetches,   \* bag of agents requests awaiting their response
    now,            \* Date.now(), advanced by every timer delay
    nextBundle,     \* the next callbacks object a caller will pass
    executed,       \* history: per claimId, status responses handled since it was started
    delivered,      \* history: per claimId, onComplete / onError calls since it was started
    reloads,        \* history: page reloads in this behaviour
    lastOp,         \* history: the step taken last and the sink calls it made, in order
    hook            \* useClaimAnalysis: its React state and its pending requests

vars == <<activePolling, callbacks, storage, timers, inflight, agentFetches, now,
          nextBundle, executed, delivered, reloads, lastOp, hook>>

\* ------------------------------------------------------------ localStorage
\* JSON.stringify of an ActiveClaim: the serialised fields in declaration order.
stringify(activeClaim) ==
    <<activeClaim.claimId, activeClaim.token, activeClaim.startTime, activeClaim.attempt>>

\* JSON.parse of a stored ActiveClaim.
parse(stored) ==
    [claimId |-> stored[1], token |-> stored[2], startTime |-> stored[3], attempt |-> stored[4]]

ActiveClaim(claimId, token, startTime, attempt) ==
    [claimId |-> claimId, token |-> token, startTime |-> startTime, attempt |-> attempt]

\* getActiveClaim(): the parsed record, or NoPointer.
getActiveClaim(stored) == IF stored = NoPointer THEN NoPointer ELSE parse(stored)

\* --------------------------------------------------------- backend replies
Statuses == {"processing", "completed", "failed", "queued"}

\* What a status request can come back with: a parsed body (result "ok"), a
\* non-success HTTP response, a thrown Error, or a thrown non-Error value.
Replies ==
    [result : {"ok"}, status : Statuses, message : {NoMessage}]
    \cup [result : {"ok"}, status : {"failed"}, message : {"pipeline crashed"}]
    \cup [result : {"notOk"}, status : {"none"}, message : {NoMessage}]
    \cup [result : {"throwError"}, status : {"none"}, message : {"Failed to fetch"}]
    \cup [result : {"throwOther"}, status : {"none"}, message : {NoMessage}]

AgentReplies == {"ok", "notOk", "throw"}

\* catchMessage that reports every failure by the fallback text.
catchMessage_generic(data) == "Polling error"

\* The message the catch block hands to onError.
catchMessage(data) ==
    CASE data.result = "notOk" -> "Failed to fetch verdict"
      [] data.result = "throwError" -> data.message
      [] OTHER -> "Polling error"

\* data.error?.message || "Analysis failed. Try again."
failedMessage(data) ==
    IF data.message # NoMessage THEN data.message ELSE "Analysis failed. Try again."

\* ------------------------------------------------------- the service state
\* The state one run-to-completion step works on.
State ==
    [activePolling |-> activePolling, callbacks |-> callbacks, storage |-> storage,
     timers |-> timers, inflight |-> inflight, agentFetches |-> agentFetches,
     executed |-> executed, delivered |-> delivered, notified |-> <<>>]

Commit(s) ==
    /\ activePolling' = s.activePolling
    /\ callbacks' = s.callbacks
    /\ storage' = s.storage
    /\ timers' = s.timers
    /\ inflight' = s.inflight
    /\ agentFetches' = s.agentFetches
    /\ executed' = s.executed
    /\ delivered' = s.delivered

\* callbacks?.onX?.(arg) on behalf of claimId: recorded when there is a bundle.
notify(s, claimId, cb, sink, arg) ==
    IF cb = NoCallbacks THEN s
    ELSE [s EXCEPT !.notified = Append(@, [callbacks |-> cb, sink |-> sink, arg |-> arg]),
                   !.delivered[claimId] =
                       IF sink \in DOMAIN @ THEN [@ EXCEPT ![sink] = @ + 1] ELSE @]

\* setTimeout returns a handle no live timer and no map entry holds.
UsedHandles(s) ==
    {tm.id : tm \in s.timers} \cup {s.activePolling[j] : j \in Jobs}

freshHandle(s) ==
    CHOOSE i \in TimerIds :
        /\ i \notin UsedHandles(s)
        /\ \A k \in TimerIds : k < i => k \in UsedHandles(s)

\* clearIfActive without the id match: any stop removes the stored record.
clearIfActive_unguarded(stored, claimId) == NoPointer

\* stopPolling: the localStorage clean-up, guarded by the id match.
clearIfActive(stored, claimId) ==
    IF stored # NoPointer /\ parse(stored).claimId = claimId THEN NoPointer ELSE stored

\* stopPolling(claimId)
stopPolling(s, claimId) ==
    [s EXCEPT !.timers = {tm \in @ : tm.id # s.activePolling[claimId]},
              !.activePolling[claimId] = NoTimer,
              !.callbacks[claimId] = NoCallbacks,
              !.storage = clearIfActive(@, claimId)]

\* scheduleNext that repeats the attempt instead of moving to the next one.
scheduleNext_sameAttempt(s, claimId, token, attempt) ==
    LET timeoutId == freshHandle(s) IN
    [s EXCEPT !.timers = @ \cup {[id |-> timeoutId, claimId |-> claimId,
                                 token |-> token, attempt |-> attempt]},
              !.activePolling[claimId] = timeoutId]

\* setTimeout(() => this.poll(claimId, token, attempt + 1)); activePolling.set(...)
scheduleNext(s, claimId, token, attempt) ==
    LET timeoutId == freshHandle(s) IN
    [s EXCEPT !.timers = @ \cup {[id |-> timeoutId, claimId |-> claimId,
                                 token |-> token, attempt |-> attempt + 1]},
              !.activePolling[claimId] = timeoutId]

\* atCeiling off by one: the ceiling is passed only above MAX_POLL_ATTEMPTS.
atCeiling_strict(attempt) == attempt > MAX_POLL_ATTEMPTS

\* if (attempt >= MAX_POLL_ATTEMPTS)
atCeiling(attempt) == attempt >= MAX_POLL_ATTEMPTS

StatusRequest(claimId, token, attempt) ==
    [claimId |-> claimId, token |-> token, attempt |-> attempt]

\* poll, from its entry to the await of the status request.
pollEnter(s, claimId, token, attempt) ==
    IF atCeiling(attempt)
    THEN stopPolling(
            notify(s, claimId, s.callbacks[claimId], "onError", TIMEOUT_MESSAGE),
            claimId)
    ELSE [s EXCEPT !.inflight = @ (+) SetToBag({StatusRequest(claimId, token, attempt)})]

\* poll, the processing branch.
pollProcessing(s, claimId, token, attempt, time) ==
    LET s1 == notify(s, claimId, s.callbacks[claimId], "onStageUpdate", "Processing...")
        s2 == [s1 EXCEPT !.storage =
                  stringify(ActiveClaim(claimId, token, time, attempt + 1))]
    IN  scheduleNext(s2, claimId, token, attempt)

\* pollCompleted that hands over the verdict before it clears the stage.
pollCompleted_completeFirst(s, claimId, token) ==
    LET cb == s.callbacks[claimId]
        s1 == notify(s, claimId, cb, "onComplete", "verdict")
        s2 == notify(s1, claimId, cb, "onStageUpdate", "null")
    IN  [s2 EXCEPT !.agentFetches =
                       @ (+) SetToBag({[claimId |-> claimId, token |-> token,
                                        callbacks |-> cb]})]

\* poll, the completed branch up to the await of the agents request.
pollCompleted(s, claimId, token) ==
    LET cb == s.callbacks[claimId]
        s1 == notify(s, claimId, cb, "onStageUpdate", "null")
        s2 == notify(s1, claimId, cb, "onComplete", "verdict")
    IN  [s2 EXCEPT !.agentFetches =
                       @ (+) SetToBag({[claimId |-> claimId, token |-> token,
                                        callbacks |-> cb]})]

\* poll, the failed branch.
pollFailed(s, claimId, data) ==
    LET cb == s.callbacks[claimId]
        s1 == notify(s, claimId, cb, "onStageUpdate", "Failed")
        s2 == notify(s1, claimId, cb, "onError", failedMessage(data))
    IN  stopPolling(s2, claimId)

\* poll, the catch block.
pollCatch(s, claimId, data) ==
    stopPolling(
        notify(s, claimId, s.callbacks[claimId], "onError", catchMessage(data)),
        claimId)

\* poll, from the arrival of the status response to its next suspension point.
pollResume(s, claimId, token, attempt, data, time) ==
    IF data.result # "ok" THEN pollCatch(s, claimId, data)
    ELSE IF s.callbacks[claimId] = NoCallbacks THEN stopPolling(s, claimId)
    ELSE CASE data.status = "processing" -> pollProcessing(s, claimId, token, attempt, time)
           [] data.status = "completed" -> pollCompleted(s, claimId, token)
           [] data.status = "failed" -> pollFailed(s, claimId, data)
           [] OTHER -> scheduleNext(s, claimId, token, attempt)

\* pollAgents that reports a failed agents request to onError.
pollAgents_escalating(s, fetch, reply) ==
    stopPolling(
        IF reply = "ok"
        THEN notify(s, fetch.claimId, fetch.callbacks, "onAgentsUpdate", "agents")
        ELSE notify(s, fetch.claimId, fetch.callbacks, "onError", "Polling error"),
        fetch.claimId)

\* poll, from the arrival of the agents response to its end.
pollAgents(s, fetch, reply) ==
    stopPolling(
        IF reply = "ok"
        THEN notify(s, fetch.claimId, fetch.callbacks, "onAgentsUpdate", "agents")
        ELSE s,
        fetch.claimId)

\* A timer whose poll issues a request fires only while the behaviour's delays last.
MayFire(cap, attempt) == atCeiling(attempt) \/ now <= cap

Op(op, claimId, detail, s) ==
    [op |-> op, claimId |-> claimId, detail |-> detail, message |-> NoMessage,
     notified |-> s.notified]

NoCalls == [onComplete |-> 0, onError |-> 0]

\* ------------------------------------------------------ the hook's state
\* The token of a user who is logged in, and the token prop before that.
HookToken == "t1"
NoToken == "null"

\* useClaimAnalysis before the component that uses it is mounted. The first
\* five fields are the useState values of the mounted instance (the initial
\* values while none is mounted); the others are the closures and requests
\* the hook's calls have left behind, of the mounted instance and of
\* instances unmounted since.
HookInit ==
    [verdict |-> "null", agents |-> "[]", processingStage |-> "null",
     loading |-> FALSE, error |-> "null",
     attached |-> FALSE,          \* a component using the hook is mounted
     token |-> NoToken,           \* the token prop of the mounted instance
     live |-> {},                 \* bundles whose setters belong to the mounted instance
     pending |-> {},              \* bundles of pollForVerdict whose promise is unsettled
     resumed |-> {},              \* bundles the resume effect handed to resumePolling
     submitting |-> 0,            \* analyze requests of the mounted instance awaiting their response
     analyzeResp |-> "",          \* the claimId of the latest analyze response that carried one
     orphaned |-> 0,              \* analyze requests of unmounted instances awaiting their response
     fetches |-> EmptyBag,        \* claimIds of fetchAgents requests of the mounted instance
     orphanFetches |-> EmptyBag]  \* claimIds of fetchAgents requests of unmounted instances

\* A setter of an unmounted instance changes nothing a mounted one shows.
setState(h, bundle, h1) ==
    IF bundle \in h.live THEN h1
    ELSE [h1 EXCEPT !.verdict = h.verdict, !.agents = h.agents,
                    !.processingStage = h.processingStage,
                    !.loading = h.loading, !.error = h.error]

\* One sink call on a bundle the resume effect built.
resumeSink(h, n) ==
    CASE n.sink = "onStageUpdate" -> [h EXCEPT !.processingStage = n.arg]
      [] n.sink = "onComplete" ->
            [h EXCEPT !.processingStage = "null", !.verdict = n.arg, !.loading = FALSE]
      [] n.sink = "onError" ->
            [h EXCEPT !.processingStage = "null", !.error = n.arg, !.loading = FALSE]
      [] OTHER -> [h EXCEPT !.agents = n.arg]

\* analyzeClaim after pollForVerdict resolved: setVerdict, then fetchAgents
\* up to the await of its request.
analyzeResolved(h, bundle, claimId, verdict) ==
    IF bundle \in h.live
    THEN [h EXCEPT !.verdict = verdict, !.fetches = @ (+) SetToBag({claimId})]
    ELSE [h EXCEPT !.orphanFetches = @ (+) SetToBag({claimId})]

\* analyzeClaim after pollForVerdict (or the analyze request) threw: the catch
\* and finally blocks.
analyzeRejected(h, message) ==
    [h EXCEPT !.error = message, !.processingStage = "null", !.loading = FALSE]

\* One sink call on a bundle pollForVerdict built; settling the promise
\* resumes analyzeClaim before any other step runs.
pollForVerdictSink(h, claimId, n) ==
    CASE n.sink = "onStageUpdate" -> [h EXCEPT !.processingStage = n.arg]
      [] n.sink = "onComplete" ->
            LET h1 == [h EXCEPT !.processingStage = "null", !.pending = @ \ {n.callbacks}]
            IN  IF n.callbacks \in h.pending
                THEN analyzeResolved(h1, n.callbacks, claimId, n.arg)
                ELSE h1
      [] n.sink = "onError" ->
            LET h1 == [h EXCEPT !.processingStage = "null", !.pending = @ \ {n.callbacks}]
            IN  IF n.callbacks \in h.pending THEN analyzeRejected(h1, n.arg)
                ELSE h1
      [] OTHER -> [h EXCEPT !.agents = n.arg]

\* The hook's callbacks run by the sink calls of one step of the service.
RECURSIVE hookSinks(_, _, _)
hookSinks(h, claimId, notified) ==
    IF notified = <<>> THEN h
    ELSE LET n == Head(notified)
             h1 == IF n.callbacks \in h.resumed THEN resumeSink(h, n)
                   ELSE pollForVerdictSink(h, claimId, n)
         IN  hookSinks(setState(h, n.callbacks, h1), claimId, Tail(notified))

\* ----------------------------------------------------------------- actions
\* What a page finds when it loads: empty maps, and in localStorage either
\* nothing or the record an earlier page left behind (jobs and tokens are
\* interchangeable, so one job and one token stand for all).
PersistedPointers ==
    {NoPointer} \cup {stringify(ActiveClaim("A", "t1", 0, a)) : a \in ResumeAttempts}

InitWith(stored) ==
    /\ storage = stored
    /\ activePolling = [j \in Jobs |-> NoTimer]
    /\ callbacks = [j \in Jobs |-> NoCallbacks]
    /\ timers = {}
    /\ inflight = EmptyBag
    /\ agentFetches = EmptyBag
    /\ now = 1
    /\ nextBundle = 1
    /\ executed = [j \in Jobs |->
                     IF stored # NoPointer /\ parse(stored).claimId = j
                     THEN parse(stored).attempt ELSE 0]
    /\ delivered = [j \in Jobs |-> NoCalls]
    /\ reloads = 0
    /\ lastOp = Op("load", "", "", State)
    /\ hook = HookInit

Init == \E stored \in PersistedPointers : InitWith(stored)

\* startPolling that leaves the stored record of another job in place.
startPolling_keepsRecord(claimId, token) ==
    /\ nextBundle <= MaxCalls
    /\ LET s1 == stopPolling(State, claimId)
           s2 == [s1 EXCEPT !.storage =
                                IF @ = NoPointer
                                THEN stringify(ActiveClaim(claimId, token, now, 0))
                                ELSE @,
                            !.callbacks[claimId] = nextBundle,
                            !.executed[claimId] = 0,
                            !.delivered[claimId] = NoCalls]
           s3 == pollEnter(s2, claimId, token, 0)
       IN  Commit(s3) /\ lastOp' = Op("start", claimId, "", s3)
    /\ nextBundle' = nextBundle + 1
    /\ UNCHANGED <<now, reloads>>

\* startPolling(claimId, token, callbacks), up to the await inside poll.
startPolling(claimId, token) ==
    /\ nextBundle <= MaxCalls
    /\ LET s1 == stopPolling(State, claimId)
           s2 == [s1 EXCEPT !.storage = stringify(ActiveClaim(claimId, token, now, 0)),
                            !.callbacks[claimId] = nextBundle,
                            !.executed[claimId] = 0,
                            !.delivered[claimId] = NoCalls]
           s3 == pollEnter(s2, claimId, token, 0)
       IN  Commit(s3) /\ lastOp' = Op("start", claimId, "", s3)
    /\ nextBundle' = nextBundle + 1
    /\ UNCHANGED <<now, reloads>>

\* stopPolling(claimId), called by a consumer.
stop(claimId) ==
    /\ Commit(stopPolling(State, claimId))
    /\ lastOp' = Op("stop", claimId, "", State)
    /\ UNCHANGED <<now, nextBundle, reloads>>

\* resumeAttempt that restarts the count instead of reading the stored record.
resumeAttempt_restart(activeClaim) == 0

\* The attempt resumePolling hands to poll.
resumeAttempt(activeClaim) == activeClaim.attempt

\* The token resumePolling hands to poll.
resumeToken(activeClaim) == activeClaim.token

\* resumePolling(callbacks), up to the await inside poll.
resumePolling ==
    /\ nextBundle <= MaxCalls
    /\ LET activeClaim == getActiveClaim(storage) IN
       IF activeClaim = NoPointer
       THEN /\ lastOp' = Op("resume", "", "", State)
            /\ UNCHANGED <<activePolling, callbacks, storage, timers, inflight,
                           agentFetches, executed, delivered>>
       ELSE LET s1 == [State EXCEPT !.callbacks[activeClaim.claimId] = nextBundle]
                s2 == pollEnter(s1, activeClaim.claimId, resumeToken(activeClaim),
                                resumeAttempt(activeClaim))
            IN  Commit(s2) /\ lastOp' = Op("resume", activeClaim.claimId, "", s2)
    /\ nextBundle' = nextBundle + 1
    /\ UNCHANGED <<now, reloads>>

\* A pending timer fires: poll(claimId, token, attempt + 1) up to its await.
timerFires(cap, tm) ==
    /\ tm \in timers
    /\ MayFire(cap, tm.attempt)
    /\ LET s1 == [State EXCEPT !.timers = @ \ {tm}]
           s2 == pollEnter(s1, tm.claimId, tm.token, tm.attempt)
       IN  Commit(s2) /\ lastOp' = Op("timer", tm.claimId, "", s2)
    /\ now' = now + 1
    /\ UNCHANGED <<nextBundle, reloads>>

\* The status response (or failure) of one request arrives.
statusArrives(req, data) ==
    /\ BagIn(req, inflight)
    /\ LET s1 == [State EXCEPT !.inflight = @ (-) SetToBag({req}),
                               !.executed[req.claimId] = @ + 1]
           s2 == pollResume(s1, req.claimId, req.token, req.attempt, data, now)
       IN  /\ Commit(s2)
           /\ lastOp' = [Op("status", req.claimId,
                            IF data.result = "ok" THEN data.status ELSE data.result, s2)
                             EXCEPT !.message = data.message]
    /\ UNCHANGED <<now, nextBundle, reloads>>

\* The agents response (or failure) of one completed tick arrives.
agentsArrive(fetch, reply) ==
    /\ BagIn(fetch, agentFetches)
    /\ LET s1 == [State EXCEPT !.agentFetches = @ (-) SetToBag({fetch})]
           s2 == pollAgents(s1, fetch, reply)
       IN  Commit(s2) /\ lastOp' = Op("agents", fetch.claimId, reply, s2)
    /\ UNCHANGED <<now, nextBundle, reloads>>

\* The page is reloaded: the module state is rebuilt, localStorage survives.
reload ==
    /\ reloads < MaxReloads
    /\ activePolling' = [j \in Jobs |-> NoTimer]
    /\ callbacks' = [j \in Jobs |-> NoCallbacks]
    /\ timers' = {}
    /\ inflight' = EmptyBag
    /\ agentFetches' = EmptyBag
    /\ reloads' = reloads + 1
    /\ lastOp' = Op("reload", "", "", State)
    /\ UNCHANGED <<storage, now, nextBundle, executed, delivered>>

\* The service under an arbitrary consumer: any call at any time, callbacks
\* that do nothing the service can observe.
Next ==
    \/ \E j \in Jobs, t \in Tokens : startPolling(j, t) /\ UNCHANGED hook
    \/ \E j \in Jobs : stop(j) /\ UNCHANGED hook
    \/ resumePolling /\ UNCHANGED hook
    \/ \E tm \in timers : timerFires(MaxTicks, tm) /\ UNCHANGED hook
    \/ \E req \in BagToSet(inflight), data \in Replies :
          statusArrives(req, data) /\ UNCHANGED hook
    \/ \E fetch \in BagToSet(agentFetches), reply \in AgentReplies :
          agentsArrive(fetch, reply) /\ UNCHANGED hook
    \/ reload /\ UNCHANGED hook

Spec == Init /\ [][Next]_vars

\* A freshly started job against a backend that keeps answering processing:
\* one startPolling on a page with empty localStorage, then only timers and
\* processing responses, for as long as the attempt ceiling allows.
ProcessingReplies == {data \in Replies : data.result = "ok" /\ data.status = "processing"}

InitFresh == InitWith(NoPointer)

NextFresh ==
    \/ \E j \in Jobs, t \in Tokens :
          nextBundle = 1 /\ startPolling(j, t) /\ UNCHANGED hook
    \/ \E tm \in timers : timerFires(MAX_POLL_ATTEMPTS, tm) /\ UNCHANGED hook
    \/ \E req \in BagToSet(inflight), data \in ProcessingReplies :
          statusArrives(req, data) /\ UNCHANGED hook

SpecFresh == InitFresh /\ [][NextFresh]_vars

\* ------------------------------------------------------------ observations
TimersOf(j) == {tm \in timers : tm.claimId = j}

InFlightOf(j) ==
    LET reqs == {req \in BagToSet(inflight) : req.claimId = j}
        RECURSIVE Sum(_)
        Sum(S) == IF S = {} THEN 0
                  ELSE LET r == CHOOSE r \in S : TRUE
                       IN  CopiesIn(r, inflight) + Sum(S \ {r})
    IN  Sum(reqs)

\* The poll loops of claimId: closures waiting on a timer or on a status response.
Loops(j) == Cardinality(TimersOf(j)) + InFlightOf(j)

\* Status requests issued for claimId since it was started (no reload in between).
Issued(j) == executed[j] + InFlightOf(j)

Pointer == parse(storage)

\* ------------------------------------------------- the hook as consumer
\* A claimId the page holds no trace of: what the analyze endpoint returns
\* (ids are opaque, so an id nothing refers to stands for a fresh one).
Unused(j) ==
    /\ callbacks[j] = NoCallbacks
    /\ activePolling[j] = NoTimer
    /\ Loops(j) = 0
    /\ \A fetch \in BagToSet(agentFetches) : fetch.claimId # j
    /\ ~BagIn(j, hook.fetches)
    /\ ~BagIn(j, hook.orphanFetches)
    /\ ~(storage # NoPointer /\ Pointer.claimId = j)

\* What the analyze request can come back with: a claimId, a non-success HTTP
\* response, or a thrown Error.
AnalyzeReplies ==
    [result : {"ok"}, claimId : Jobs] \cup [result : {"notOk", "throw"}, claimId : {""}]

\* The message of the Error fetchWithAuth (or fetch) throws.
requestMessage(reply) ==
    IF reply.result = "notOk" THEN "Request failed" ELSE "Failed to fetch"

ServiceVars == <<activePolling, callbacks, storage, timers, inflight, agentFetches,
                 executed, delivered>>

\* Calls of the hook that may still reach startPolling or resumePolling.
CallsLeft == hook.submitting + hook.orphaned + nextBundle <= MaxCalls

\* analyzeClaim that runs its preamble before it looks at the payload.
analyzeClaim_unvalidated(hasContent) ==
    /\ hook.attached
    /\ LET h1 == [hook EXCEPT !.loading = TRUE, !.error = "null",
                              !.verdict = "null", !.agents = "[]",
                              !.processingStage = "Queued"]
       IN  IF ~hasContent
           THEN hook' = [h1 EXCEPT !.error = "No content provided to analyze.",
                                   !.processingStage = "null", !.loading = FALSE]
           ELSE IF hook.token = NoToken
                THEN hook' = analyzeRejected(h1, "You must be logged in to analyze news.")
                ELSE /\ CallsLeft
                     /\ hook' = [h1 EXCEPT !.submitting = @ + 1]
    /\ lastOp' = Op("analyzeClaim", "",
                    IF ~hasContent THEN "empty"
                    ELSE IF hook.token = NoToken THEN "noToken" ELSE "sent", State)
    /\ UNCHANGED <<ServiceVars, now, nextBundle, reloads>>

\* analyzeClaim(params), up to the await of the analyze request; without
\* authHeaders fetchWithAuth throws before any request and the catch and
\* finally blocks run at once.
analyzeClaim(hasContent) ==
    /\ hook.attached
    /\ IF ~hasContent
       THEN hook' = [hook EXCEPT !.error = "No content provided to analyze."]
       ELSE LET h1 == [hook EXCEPT !.loading = TRUE, !.error = "null",
                                   !.verdict = "null", !.agents = "[]",
                                   !.processingStage = "Queued"]
            IN  IF hook.token = NoToken
                THEN hook' = analyzeRejected(h1, "You must be logged in to analyze news.")
                ELSE /\ CallsLeft
                     /\ hook' = [h1 EXCEPT !.submitting = @ + 1]
    /\ lastOp' = Op("analyzeClaim", "",
                    IF ~hasContent THEN "empty"
                    ELSE IF hook.token = NoToken THEN "noToken" ELSE "sent", State)
    /\ UNCHANGED <<ServiceVars, now, nextBundle, reloads>>

\* analyzeArrives that sends the analyze request again when it failed.
analyzeArrives_retrying(reply) ==
    /\ hook.submitting > 0
    /\ IF reply.result = "ok"
       THEN /\ Unused(reply.claimId)
            /\ startPolling(reply.claimId, HookToken)
            /\ hook' = [hook EXCEPT !.submitting = @ - 1,
                                    !.analyzeResp = reply.claimId,
                                    !.pending = @ \cup {nextBundle},
                                    !.live = @ \cup {nextBundle}]
       ELSE /\ hook' = analyzeRejected(hook, requestMessage(reply))
            /\ lastOp' = Op("analyze", "", reply.result, State)
            /\ UNCHANGED <<ServiceVars, now, nextBundle, reloads>>

\* The analyze response of the mounted instance arrives: pollForVerdict(claimId)
\* calls startPolling, or the catch and finally blocks of analyzeClaim run.
analyzeArrives(reply) ==
    /\ hook.submitting > 0
    /\ IF reply.result = "ok"
       THEN /\ Unused(reply.claimId)
            /\ startPolling(reply.claimId, HookToken)
            /\ hook' = [hook EXCEPT !.submitting = @ - 1,
                                    !.analyzeResp = reply.claimId,
                                    !.pending = @ \cup {nextBundle},
                                    !.live = @ \cup {nextBundle}]
       ELSE /\ hook' = analyzeRejected([hook EXCEPT !.submitting = @ - 1],
                                       requestMessage(reply))
            /\ lastOp' = Op("analyze", "", reply.result, State)
            /\ UNCHANGED <<ServiceVars, now, nextBundle, reloads>>

\* The analyze response of an unmounted instance arrives: its analyzeClaim
\* goes on as above, its setters change nothing.
orphanAnalyzeArrives(reply) ==
    /\ hook.orphaned > 0
    /\ IF reply.result = "ok"
       THEN /\ Unused(reply.claimId)
            /\ startPolling(reply.claimId, HookToken)
            /\ hook' = [hook EXCEPT !.orphaned = @ - 1,
                                    !.analyzeResp = reply.claimId,
                                    !.pending = @ \cup {nextBundle}]
       ELSE /\ hook' = [hook EXCEPT !.orphaned = @ - 1]
            /\ lastOp' = Op("analyze", "", reply.result, State)
            /\ UNCHANGED <<ServiceVars, now, nextBundle, reloads>>

\* mountEffect that resumes without entering the "Resuming..." state.
mountEffect_silent(h, op) ==
    LET activeClaim == getActiveClaim(storage) IN
    IF h.token = NoToken \/ activeClaim = NoPointer
    THEN /\ hook' = h
         /\ lastOp' = Op(op, "", "", State)
         /\ UNCHANGED <<ServiceVars, now, nextBundle, reloads>>
    ELSE /\ CallsLeft
         /\ resumePolling
         /\ hook' = hookSinks([h EXCEPT !.resumed = @ \cup {nextBundle},
                                        !.live = @ \cup {nextBundle}],
                              activeClaim.claimId, lastOp'.notified)

\* The effect on [token], run after the render that left the hook as h:
\* nothing without a token or without a stored record; otherwise
\* resumePolling, then setLoading(true) and setProcessingStage("Resuming...").
mountEffect(h, op) ==
    LET activeClaim == getActiveClaim(storage) IN
    IF h.token = NoToken \/ activeClaim = NoPointer
    THEN /\ hook' = h
         /\ lastOp' = Op(op, "", "", State)
         /\ UNCHANGED <<ServiceVars, now, nextBundle, reloads>>
    ELSE /\ CallsLeft
         /\ resumePolling
         /\ hook' = [hookSinks([h EXCEPT !.resumed = @ \cup {nextBundle},
                                         !.live = @ \cup {nextBundle}],
                               activeClaim.claimId, lastOp'.notified)
                        EXCEPT !.loading = TRUE, !.processingStage = "Resuming..."]

\* A component using the hook is mounted with the token prop t.
mount(t) ==
    /\ ~hook.attached
    /\ mountEffect([hook EXCEPT !.attached = TRUE, !.token = t], "mount")

\* The token prop of the mounted instance changes to t.
tokenChanges(t) ==
    /\ hook.attached
    /\ t # hook.token
    /\ mountEffect([hook EXCEPT !.token = t], "token")

\* unmount that stops the job of the stored record on the way out.
unmount_stopping ==
    /\ hook.attached
    /\ LET activeClaim == getActiveClaim(storage) IN
       IF activeClaim # NoPointer
       THEN Commit(stopPolling(State, activeClaim.claimId))
       ELSE UNCHANGED ServiceVars
    /\ hook' = [HookInit EXCEPT !.pending = hook.pending, !.resumed = hook.resumed,
                                !.analyzeResp = hook.analyzeResp,
                                !.orphaned = hook.orphaned + hook.submitting,
                                !.orphanFetches = hook.orphanFetches (+) hook.fetches]
    /\ lastOp' = Op("unmount", "", "", State)
    /\ UNCHANGED <<now, nextBundle, reloads>>

\* The component is unmounted: the resume effect has no cleanup, so the
\* service is not called; the instance's state is dropped, its closures and
\* requests live on.
unmount ==
    /\ hook.attached
    /\ hook' = [HookInit EXCEPT !.pending = hook.pending, !.resumed = hook.resumed,
                                !.analyzeResp = hook.analyzeResp,
                                !.orphaned = hook.orphaned + hook.submitting,
                                !.orphanFetches = hook.orphanFetches (+) hook.fetches]
    /\ lastOp' = Op("unmount", "", "", State)
    /\ UNCHANGED <<ServiceVars, now, nextBundle, reloads>>

\* reset()
reset ==
    /\ hook.attached
    /\ LET activeClaim == getActiveClaim(storage) IN
       IF activeClaim # NoPointer
       THEN stop(activeClaim.claimId)
       ELSE /\ lastOp' = Op("reset", "", "", State)
            /\ UNCHANGED <<ServiceVars, now, nextBundle, reloads>>
    /\ hook' = [hook EXCEPT !.verdict = "null", !.agents = "[]",
                            !.processingStage = "null", !.error = "null"]

\* The response of a fetchAgents request of the mounted instance arrives:
\* setAgents or the logging catch, then the finally block of analyzeClaim.
fetchAgentsArrives(claimId, reply) ==
    /\ BagIn(claimId, hook.fetches)
    /\ hook' = [hook EXCEPT !.fetches = @ (-) SetToBag({claimId}),
                            !.agents = IF reply = "ok" THEN "agents" ELSE @,
                            !.loading = FALSE]
    /\ lastOp' = Op("fetchAgents", claimId, reply, State)
    /\ UNCHANGED <<ServiceVars, now, nextBundle, reloads>>

\* The response of a fetchAgents request of an unmounted instance arrives.
orphanFetchArrives(claimId, reply) ==
    /\ BagIn(claimId, hook.orphanFetches)
    /\ hook' = [hook EXCEPT !.orphanFetches = @ (-) SetToBag({claimId})]
    /\ lastOp' = Op("fetchAgents", claimId, reply, State)
    /\ UNCHANGED <<ServiceVars, now, nextBundle, reloads>>

\* The service with the hook as its consumer, for the lifetime of one page
\* (what an earlier page left in localStorage is in Init): the calls are the
\* hook's, and every sink call of a step runs the hook's callback within
\* that step.
NextHook ==
    \/ \E t \in {NoToken, HookToken} : mount(t)
    \/ \E t \in {NoToken, HookToken} : tokenChanges(t)
    \/ unmount
    \/ \E hasContent \in BOOLEAN : analyzeClaim(hasContent)
    \/ \E reply \in AnalyzeReplies : analyzeArrives(reply)
    \/ \E reply \in AnalyzeReplies : orphanAnalyzeArrives(reply)
    \/ reset
    \/ \E tm \in timers :
          timerFires(MaxHookTicks, tm) /\ hook' = hookSinks(hook, tm.claimId, lastOp'.notified)
    \/ \E req \in BagToSet(inflight), data \in Replies :
          statusArrives(req, data) /\ hook' = hookSinks(hook, req.claimId, lastOp'.notified)
    \/ \E fetch \in BagToSet(agentFetches), reply \in AgentReplies :
          agentsArrive(fetch, reply) /\ hook' = hookSinks(hook, fetch.claimId, lastOp'.notified)
    \/ \E claimId \in BagToSet(hook.fetches), reply \in AgentReplies :
          fetchAgentsArrives(claimId, reply)
    \/ \E claimId \in BagToSet(hook.orphanFetches), reply \in AgentReplies :
          orphanFetchArrives(claimId, reply)

SpecHook == Init /\ [][NextHook]_vars

\* ------------------------------------------------------------------ claims

\* C1: in every reachable state, each job id has at most one poll loop: its
\* pending timers plus its in-flight status requests number at most 1.
C1_TicksStrictlySerial == \A j \in Jobs : Loops(j) <= 1

\* C2: when startPolling is called for a job id right after a startPolling for
\* the same id (the first call's status request still awaiting its response),
\* exactly one poll loop exists for that id afterwards and the registered
\* callbacks are the second call's.
C2_SecondStartSupersedes ==
    [][\A j \in Jobs :
          (lastOp.op = "start" /\ lastOp.claimId = j
           /\ lastOp'.op = "start" /\ lastOp'.claimId = j)
          => (Loops(j)' = 1 /\ callbacks'[j] = nextBundle)]_vars

\* C3: onComplete is invoked at most once for a job, whatever ticks and
\* resumePolling calls preceded the completed response.
C3_OneOnComplete == \A j \in Jobs : delivered[j].onComplete <= 1

\* C4: a freshly started job whose status responses are all processing issues
\* at most 75 status requests; once its loop has ended it has issued exactly
\* 75, and onError has been invoked exactly once, with the timeout message,
\* by the step that ended the loop.
C4_TimeoutAfter75 ==
    \A j \in Jobs :
        /\ Issued(j) <= 75
        /\ delivered[j].onComplete = 0
        /\ (nextBundle > 1 /\ lastOp.claimId = j /\ Loops(j) = 0) =>
              /\ Issued(j) = 75
              /\ delivered[j].onError = 1
              /\ lastOp.op = "timer"
              /\ lastOp.notified =
                    <<[callbacks |-> 1, sink |-> "onError",
                       arg |-> "Analysis timed out after 5 minutes. Please try again."]>>
        /\ (Loops(j) > 0) => delivered[j].onError = 0

C4_TimedOut ==
    \E j \in Jobs : Issued(j) = 75 /\ Loops(j) = 0 /\ delivered[j].onError = 1

\* C5: once onComplete or onError has been delivered for a job, no further
\* status request is issued for it unless startPolling is called for it again.
Terminal(j) == delivered[j].onComplete + delivered[j].onError > 0

C5_TerminalIsAbsorbing ==
    [][\A j \in Jobs :
          (Terminal(j) /\ ~(lastOp'.op = "start" /\ lastOp'.claimId = j))
          => InFlightOf(j)' <= InFlightOf(j)]_vars

\* C6: after n handled status responses of a job, every tick of it that is
\* scheduled or awaiting its response carries attempt n: the counter never
\* lags, skips or restarts within the job's lifetime.
C6_AttemptCountsTicks ==
    \A j \in Jobs :
        /\ \A tm \in TimersOf(j) : tm.attempt = executed[j]
        /\ \A req \in BagToSet(inflight) : req.claimId = j => req.attempt = executed[j]

\* C7: resumePolling continues from the stored record: when localStorage holds
\* {claimId j, token c, attempt a} with a below the ceiling, the call issues
\* one status request for j with token c and attempt a; and a processing
\* response to a request with attempt a stores attempt a + 1 for the same
\* claimId and token.
C7_ResumeFromPointer ==
    [][/\ (lastOp'.op = "resume" /\ storage # NoPointer
           /\ Pointer.attempt < MAX_POLL_ATTEMPTS)
          => /\ lastOp'.claimId = Pointer.claimId
             /\ inflight' = inflight (+) SetToBag({[claimId |-> Pointer.claimId,
                                                   token |-> Pointer.token,
                                                   attempt |-> Pointer.attempt]})
             /\ storage' = storage
       /\ (lastOp'.op = "status" /\ lastOp'.detail = "processing"
           /\ callbacks[lastOp'.claimId] # NoCallbacks)
          => \E req \in BagToSet(inflight) :
                /\ inflight' = inflight (-) SetToBag({req})
                /\ storage' # NoPointer
                /\ Pointer'.claimId = req.claimId
                /\ Pointer'.token = req.token
                /\ Pointer'.attempt = req.attempt + 1
                /\ req.claimId = lastOp'.claimId]_vars

\* A page that resumed the record with attempt 40 has stored attempt 41.
C7_ResumedAt40 ==
    /\ lastOp.op = "status"
    /\ lastOp.detail = "processing"
    /\ storage # NoPointer
    /\ Pointer.attempt = 41
    /\ nextBundle = 2

\* C8: a step that runs stopPolling(claimId) and writes no record -- a
\* consumer's stop, a failed or unsuccessful status response, an agents
\* response, a poll at the attempt ceiling -- removes the stored record if its
\* claimId equals claimId and leaves localStorage unchanged otherwise.
StopsOnly(claimId) ==
    /\ lastOp'.claimId = claimId
    /\ \/ lastOp'.op \in {"stop", "agents"}
       \/ lastOp'.op = "status" /\ lastOp'.detail \in {"failed", "notOk", "throwError", "throwOther"}
       \/ lastOp'.op \in {"timer", "resume"} /\ InFlightOf(claimId)' = InFlightOf(claimId)

C8_StopClearsOnlyMatching ==
    [][\A j \in Jobs :
          StopsOnly(j) =>
              storage' = IF storage # NoPointer /\ Pointer.claimId = j
                         THEN NoPointer ELSE storage]_vars

\* A consumer stopped a job that had been polled while the stored record is
\* another job's.
C8_StoppedOtherJob ==
    /\ lastOp.op = "stop"
    /\ storage # NoPointer
    /\ Pointer.claimId # lastOp.claimId
    /\ executed[lastOp.claimId] > 0

\* C9: right after stopPolling(claimId) returns, no timer of claimId is
\* pending, and the next step issues no status request for claimId unless it
\* is a startPolling or resumePolling.
C9_StopIsImmediate ==
    [][\A j \in Jobs :
          (lastOp.op = "stop" /\ lastOp.claimId = j)
          => /\ TimersOf(j) = {}
             /\ lastOp'.op \notin {"start", "resume"} => InFlightOf(j)' <= InFlightOf(j)]_vars

\* C10: when the response to a request of claimId arrives and the callbacks of
\* claimId have been removed meanwhile, no sink is invoked, localStorage is
\* not written and no timer is scheduled.
C10_ResultIgnoredAfterStop ==
    [][(lastOp'.op \in {"status", "agents"} /\ callbacks[lastOp'.claimId] = NoCallbacks)
       => /\ lastOp'.notified = <<>>
          /\ storage' = storage
          /\ timers' \subseteq timers]_vars

\* ---------------------------------------------------- claims C11 .. C20

\* C11: right after a step that started a job or handled one of its status
\* responses, the stored record, if present, names that job.
C11_PointerNamesLastTicked ==
    (lastOp.op \in {"start", "status"} /\ storage # NoPointer)
    => Pointer.claimId = lastOp.claimId

\* A step that ended the poll loop of a job: a failed or unsuccessful status
\* request, a completed or failed status, a poll at the attempt ceiling.
EndedJob ==
    \/ /\ lastOp.op = "status"
       /\ lastOp.detail \in {"completed", "failed", "notOk", "throwError", "throwOther"}
    \/ /\ lastOp.op \in {"start", "resume", "timer"}
       /\ \E i \in DOMAIN lastOp.notified : lastOp.notified[i].arg = TIMEOUT_MESSAGE

\* C12: right after the step in which a job reached a terminal outcome
\* (completed, failed, timed out, failed request), the stored record does not
\* name that job, so resumePolling cannot poll it again.
C12_TerminalTickClearsPointer ==
    EndedJob => ~(storage # NoPointer /\ Pointer.claimId = lastOp.claimId)

\* The status request of the last step threw or came back unsuccessful.
RequestFailed == lastOp.op = "status" /\ lastOp.detail \in {"notOk", "throwError", "throwOther"}

\* The reason the catch block reports for each kind of failed request.
FailureReason(detail) ==
    CASE detail = "notOk" -> "Failed to fetch verdict"
      [] detail = "throwError" -> "Failed to fetch"
      [] OTHER -> "Polling error"

AgentRequests(j) ==
    LET fetches == {fetch \in BagToSet(agentFetches) : fetch.claimId = j}
        RECURSIVE Sum(_)
        Sum(S) == IF S = {} THEN 0
                  ELSE LET f == CHOOSE f \in S : TRUE
                       IN  CopiesIn(f, agentFetches) + Sum(S \ {f})
    IN  Sum(fetches) + CopiesIn(j, hook.fetches) + CopiesIn(j, hook.orphanFetches)

\* C14: service and hook together have at most one agents request of a job
\* awaiting its response, and none before onComplete was delivered for it.
C14_OneAgentsRequest ==
    \A j \in Jobs :
        /\ AgentRequests(j) <= 1
        /\ AgentRequests(j) > 0 => delivered[j].onComplete > 0

\* C15: a failed agents request is a soft failure. When the service's request
\* fails, the step invokes no sink (no onError), leaves the onComplete and
\* onError counts and the hook's state as they were, removes the job's map
\* entries and leaves no stored record naming the job. When the hook's own
\* fetchAgents request fails, verdict, error and agents stay as they were and
\* the service is untouched.
C15_AgentsFailureIsSoft ==
    [][/\ (lastOp'.op = "agents" /\ lastOp'.detail # "ok")
          => /\ lastOp'.notified = <<>>
             /\ delivered' = delivered
             /\ hook' = hook
             /\ callbacks'[lastOp'.claimId] = NoCallbacks
             /\ activePolling'[lastOp'.claimId] = NoTimer
             /\ ~(storage' # NoPointer /\ Pointer'.claimId = lastOp'.claimId)
       /\ (lastOp'.op = "fetchAgents" /\ lastOp'.detail # "ok")
          => /\ hook'.verdict = hook.verdict
             /\ hook'.error = hook.error
             /\ hook'.agents = hook.agents
             /\ UNCHANGED ServiceVars]_vars

\* The agents request of a completed job has failed: the verdict is shown, no
\* error is set, the stored record is gone.
C15_AgentsFailed ==
    /\ lastOp.op = "agents"
    /\ lastOp.detail \in {"notOk", "throw"}
    /\ delivered[lastOp.claimId] = [onComplete |-> 1, onError |-> 0]
    /\ hook.verdict = "verdict"
    /\ hook.error = "null"
    /\ storage = NoPointer

\* C16: when a status response carries a status other than processing,
\* completed and failed and the job's callbacks are registered, the step
\* schedules one timer for the same claimId and token with the request's
\* attempt plus 1, records its handle in activePolling, issues no request
\* itself and invokes no sink: neither onError nor onComplete.
C16_UnknownStatusReschedules ==
    [][(lastOp'.op = "status" /\ lastOp'.detail \notin {"processing", "completed", "failed",
                                                        "notOk", "throwError", "throwOther"}
        /\ callbacks[lastOp'.claimId] # NoCallbacks)
       => \E req \in BagToSet(inflight) :
             /\ req.claimId = lastOp'.claimId
             /\ inflight' = inflight (-) SetToBag({req})
             /\ timers' = timers \cup {[id |-> activePolling'[req.claimId],
                                        claimId |-> req.claimId, token |-> req.token,
                                        attempt |-> req.attempt + 1]}
             /\ timers' # timers
             /\ lastOp'.notified = <<>>
             /\ delivered' = delivered
             /\ callbacks' = callbacks]_vars

\* The first status response of a job said "queued": its second tick is
\* scheduled and nothing was reported.
C16_QueuedRescheduled ==
    /\ lastOp.op = "status"
    /\ lastOp.detail = "queued"
    /\ \E tm \in timers :
          /\ tm.claimId = lastOp.claimId
          /\ tm.attempt = 1
          /\ tm.id = activePolling[lastOp.claimId]
    /\ delivered[lastOp.claimId] = NoCalls

\* C17: whenever a timer is pending for the job the stored record names, the
\* stored attempt is the attempt that timer's tick will run with.
C17_PersistedAttemptKeepsUp ==
    storage # NoPointer =>
        \A tm \in TimersOf(Pointer.claimId) : Pointer.attempt = tm.attempt

\* C18: a startPolling(claimId, token, callbacks) step cancels the timer
\* registered for claimId in activePolling and no other, replaces whatever
\* localStorage held by {claimId, token, attempt 0}, registers the callbacks
\* it was given for claimId, and issues the status request (claimId, token,
\* attempt 0) in the same step, without a timer; so that request is never
\* awaiting its response without the record written and the callbacks set.
C18_StartWritesThenPolls ==
    [][\A j \in Jobs :
          (lastOp'.op = "start" /\ lastOp'.claimId = j)
          => \E t \in Tokens :
                /\ timers' = {tm \in timers : tm.id # activePolling[j]}
                /\ activePolling' = [activePolling EXCEPT ![j] = NoTimer]
                /\ storage' = stringify(ActiveClaim(j, t, now, 0))
                /\ callbacks' = [callbacks EXCEPT ![j] = nextBundle]
                /\ inflight' = inflight (+) SetToBag({StatusRequest(j, t, 0)})
                /\ lastOp'.notified = <<>>]_vars

\* B was started while A, started before it, is still being polled: the
\* stored record was A's and is now B's, with attempt 0.
C18_StartedOverOtherJob ==
    /\ lastOp.op = "start"
    /\ lastOp.claimId = "B"
    /\ callbacks["A"] # NoCallbacks
    /\ Loops("A") > 0
    /\ Pointer.claimId = "B"
    /\ Pointer.attempt = 0
    /\ InFlightOf("B") = 1

\* C19: when the first call of a page was startPolling(A), the second was
\* startPolling(B) for another claimId, neither has been stopped and B has
\* reached no terminal outcome, the stored record names B (so resumePolling
\* after a reload polls B).
C19_PointerReflectsSecondStart ==
    \A a \in Jobs : \A b \in Jobs \ {a} :
        (/\ reloads = 0
         /\ callbacks[a] = 1 /\ executed[a] < 40
         /\ callbacks[b] = 2 /\ ~Terminal(b))
        => (storage # NoPointer /\ Pointer.claimId = b)

\* C20: in no reachable state has onComplete been delivered for a job whose
\* callbacks are still registered or which the stored record still names.
C20_CompletedBranchIsAtomic ==
    \A j \in Jobs :
        delivered[j].onComplete > 0
        => /\ callbacks[j] = NoCallbacks
           /\ ~(storage # NoPointer /\ Pointer.claimId = j)

\* ---------------------------------------------------- claims C21 .. C30

\* C21: every sink call of a step goes to the callbacks registered for the
\* job when the step began (in a startPolling or resumePolling step: to the
\* callbacks that call registers); callbacks that were replaced are not
\* called again.
C21_OnlyRegisteredBundle ==
    [][\A i \in DOMAIN lastOp'.notified :
          lastOp'.notified[i].callbacks =
              IF lastOp'.op \in {"start", "resume"} THEN nextBundle
              ELSE callbacks[lastOp'.claimId]]_vars

\* C22: unmounting the component that uses the hook changes nothing in the
\* service: timers, map entries, pending requests and the stored record stay
\* as they were; and with no component mounted the loop goes on: a timer
\* that fires below the ceiling issues its status request, and a processing
\* response for registered callbacks schedules the next timer.
C22_UnmountLeavesLoop ==
    [][/\ lastOp'.op = "unmount" => UNCHANGED ServiceVars
       /\ (~hook.attached /\ lastOp'.op = "timer")
          => \E tm \in timers \ timers' :
                /\ tm.claimId = lastOp'.claimId
                /\ ~atCeiling(tm.attempt)
                   => inflight' = inflight (+) SetToBag({StatusRequest(tm.claimId, tm.token,
                                                                       tm.attempt)})
       /\ (~hook.attached /\ lastOp'.op = "status" /\ lastOp'.detail = "processing"
           /\ callbacks[lastOp'.claimId] # NoCallbacks)
          => \E tm \in timers' \ timers :
                tm.claimId = lastOp'.claimId /\ tm.id = activePolling'[tm.claimId]]_vars

\* The component was unmounted while analyzeClaim awaited the verdict, and
\* the job's timer has fired since.
C22_TickedWhileUnmounted ==
    /\ ~hook.attached
    /\ hook.pending # {}
    /\ lastOp.op = "timer"
    /\ callbacks[lastOp.claimId] \in hook.pending
    /\ InFlightOf(lastOp.claimId) = 1
    /\ executed[lastOp.claimId] = 1

\* C23 (as stated): when a component using the hook is mounted and a record
\* is stored, resumePolling is called and the hook shows loading = true with
\* stage "Resuming..."; when none is stored, the hook shows loading = false
\* and the service is left as it was.
C23_ActivationResumes ==
    [][(~hook.attached /\ hook'.attached)
       => IF storage # NoPointer
          THEN /\ lastOp'.op = "resume"
               /\ hook'.loading
               /\ hook'.processingStage = "Resuming..."
          ELSE /\ ~hook'.loading
               /\ UNCHANGED ServiceVars]_vars

\* C23 (amended): the resume effect acts only for a hook that has a token.
\* When a component is mounted with a token, or the token of a mounted one
\* arrives, and a record is stored, resumePolling is called for the stored
\* claimId with new callbacks and the hook then shows loading = true and
\* stage "Resuming...". When a component is mounted without a token or with
\* no record stored, the hook shows its initial state (loading = false, no
\* stage), no callbacks are registered and no request is issued.
C23_ActivationWithToken ==
    [][/\ (/\ hook'.attached
           /\ ~hook.attached \/ hook.token = NoToken
           /\ hook'.token # NoToken
           /\ storage # NoPointer)
          => /\ lastOp'.op = "resume"
             /\ lastOp'.claimId = Pointer.claimId
             /\ nextBundle' = nextBundle + 1
             /\ nextBundle \in hook'.resumed
             /\ hook'.loading
             /\ hook'.processingStage = "Resuming..."
       /\ (/\ ~hook.attached /\ hook'.attached
           /\ hook'.token = NoToken \/ storage = NoPointer)
          => /\ ~hook'.loading
             /\ hook'.processingStage = "null"
             /\ nextBundle' = nextBundle
             /\ UNCHANGED ServiceVars]_vars

\* A component was mounted with a token on a page that found a record with
\* attempt 40: the request of the resumed poll is awaiting its response.
C23_MountedOnRecord ==
    /\ lastOp.op = "resume"
    /\ hook.attached
    /\ hook.loading
    /\ hook.processingStage = "Resuming..."
    /\ hook.resumed = {1}
    /\ inflight = SetToBag({StatusRequest("A", "t1", 40)})

\* C24: analyzeClaim on a payload without content sets the error and nothing
\* else: no analyze request is sent, startPolling is not called, the
\* service's maps and the stored record stay as they were, and so do the
\* hook's loading and verdict.
C24_EmptyPayloadRejected ==
    [][(lastOp'.op = "analyzeClaim" /\ lastOp'.detail = "empty")
          => /\ hook'.error = "No content provided to analyze."
             /\ hook'.submitting = hook.submitting
             /\ hook'.orphaned = hook.orphaned
             /\ hook'.pending = hook.pending
             /\ hook'.loading = hook.loading
             /\ hook'.verdict = hook.verdict
             /\ nextBundle' = nextBundle
             /\ UNCHANGED ServiceVars]_vars

\* An empty payload was rejected while a submitted job was being polled.
C24_RejectedWhilePolling ==
    /\ lastOp.op = "analyzeClaim" /\ lastOp.detail = "empty"
    /\ hook.error = "No content provided to analyze."
    /\ hook.loading
    /\ hook.pending # {}
    /\ storage # NoPointer

\* C25: the hook calls startPolling once per analyze response that carries a
\* claimId, with that claimId, and at no other time; an analyze request that
\* fails is not sent again, startPolling is not called for it, the service's
\* state and the stored record stay as they were, and the instance that sent
\* it ends with the error set and loading = false.
C25_StartAfterSubmission ==
    [][/\ lastOp'.op = "start"
          => /\ hook.submitting + hook.orphaned > 0
             /\ hook'.submitting + hook'.orphaned = hook.submitting + hook.orphaned - 1
             /\ lastOp'.claimId = hook'.analyzeResp
             /\ nextBundle' = nextBundle + 1
             /\ callbacks'[lastOp'.claimId] = nextBundle
             /\ \A j \in Jobs \ {lastOp'.claimId} : callbacks'[j] = callbacks[j]
       /\ lastOp'.op = "analyze"
          => /\ hook'.submitting + hook'.orphaned = hook.submitting + hook.orphaned - 1
             /\ nextBundle' = nextBundle
             /\ UNCHANGED ServiceVars
             /\ hook'.submitting < hook.submitting
                   => /\ hook'.error \in {"Request failed", "Failed to fetch"}
                      /\ ~hook'.loading
       /\ hook'.submitting + hook'.orphaned > hook.submitting + hook.orphaned
          => /\ lastOp'.op = "analyzeClaim" /\ lastOp'.detail = "sent"
             /\ hook'.submitting = hook.submitting + 1
             /\ UNCHANGED ServiceVars]_vars

\* A second submission failed after the first one had started job A: the
\* record of A is still there, the error is set and loading is false.
C25_FailedAfterStarted ==
    /\ lastOp.op = "analyze" /\ lastOp.detail = "notOk"
    /\ hook.analyzeResp = "A"
    /\ storage # NoPointer /\ Pointer.claimId = "A"
    /\ hook.submitting = 0
    /\ hook.error = "Request failed"
    /\ ~hook.loading

\* C26: the tick that reads "completed" calls onStageUpdate(null) and then
\* onComplete(verdict) on the registered bundle, and onAgentsUpdate is only
\* called on the arrival of an agents response whose request that tick sent
\* after its onComplete; the tick that reads "failed" calls onStageUpdate and
\* then onError, with the response's error message when it has one.
C26_StageBeforeTerminal ==
    [][LET n == lastOp'.notified
           j == lastOp'.claimId
           Call(sink, arg) == [callbacks |-> callbacks[j], sink |-> sink, arg |-> arg]
       IN  /\ (lastOp'.op = "status" /\ lastOp'.detail = "completed"
                  /\ callbacks[j] # NoCallbacks)
              => n = <<Call("onStageUpdate", "null"), Call("onComplete", "verdict")>>
           /\ (lastOp'.op = "status" /\ lastOp'.detail = "failed"
                  /\ callbacks[j] # NoCallbacks)
              => n = <<Call("onStageUpdate", "Failed"),
                       Call("onError", IF lastOp'.message # NoMessage
                                       THEN lastOp'.message
                                       ELSE "Analysis failed. Try again.")>>
           /\ \A i \in DOMAIN n :
                 n[i].sink = "onAgentsUpdate"
                 => /\ lastOp'.op = "agents"
                    /\ Len(n) = 1
                    /\ \E f \in BagToSet(agentFetches) :
                          f.claimId = j /\ f.callbacks = n[i].callbacks
           /\ \A f \in BagToSet(agentFetches') :
                 CopiesIn(f, agentFetches') > CopiesIn(f, agentFetches)
                 => /\ lastOp'.op = "status"
                    /\ n = <<[callbacks |-> f.callbacks, sink |-> "onStageUpdate",
                              arg |-> "null"],
                             [callbacks |-> f.callbacks, sink |-> "onComplete",
                              arg |-> "verdict"]>>]_vars

\* Job A has just failed with the backend's message, after job B completed
\* and its agents response was handled.
C26_FailedWithMessage ==
    /\ lastOp.op = "status" /\ lastOp.detail = "failed" /\ lastOp.claimId = "A"
    /\ lastOp.message = "pipeline crashed"
    /\ Len(lastOp.notified) = 2
    /\ lastOp.notified[2].sink = "onError"
    /\ lastOp.notified[2].arg = "pipeline crashed"
    /\ delivered["B"].onComplete = 1
    /\ callbacks["B"] = NoCallbacks
    /\ \A f \in BagToSet(agentFetches) : f.claimId # "B"

\* C27: over the lifetime of one job, resumePolling calls included, onComplete
\* and onError are invoked at most once between them.
C27_OneTerminalCall ==
    \A j \in Jobs : delivered[j].onComplete + delivered[j].onError <= 1

\* C28: a job handles at most 75 status responses, whatever ticks, reloads and
\* resumePolling calls it goes through and whatever statuses it reads.
C28_AtMost75Responses ==
    \A j \in Jobs : executed[j] <= MAX_POLL_ATTEMPTS

\* ------------------------------------------------- the resume, to its end
\* A page that finds the record of a job at any stored attempt, mounts the
\* hook with the user's token and is left alone: every timer fires and every
\* request is answered, with any reply.
StoredAttempts == 0 .. MAX_POLL_ATTEMPTS

\* The delays of one job never run out: it sets fewer timers than this.
NoCap == MAX_POLL_ATTEMPTS + 1

InitResume ==
    \E a \in StoredAttempts : InitWith(stringify(ActiveClaim("A", "t1", 0, a)))

tick ==
    \E tm \in timers :
        timerFires(NoCap, tm) /\ hook' = hookSinks(hook, tm.claimId, lastOp'.notified)

statusResponse ==
    \E req \in BagToSet(inflight), data \in Replies :
        statusArrives(req, data) /\ hook' = hookSinks(hook, req.claimId, lastOp'.notified)

agentsResponse ==
    \E fetch \in BagToSet(agentFetches), reply \in AgentReplies :
        agentsArrive(fetch, reply) /\ hook' = hookSinks(hook, fetch.claimId, lastOp'.notified)

NextResume ==
    \/ mount(HookToken)
    \/ tick
    \/ statusResponse
    \/ agentsResponse

SpecResume ==
    /\ InitResume
    /\ [][NextResume]_vars
    /\ WF_vars(tick)
    /\ WF_vars(statusResponse)
    /\ WF_vars(agentsResponse)

\* C29: a hook that the resume effect put into loading = true comes to
\* loading = false with a verdict or an error set, whatever attempt the
\* stored record held, when every request is answered and every timer fires.
C29_ResumeEndsProcessing ==
    (hook.resumed # {} /\ hook.loading)
        ~> (~hook.loading /\ (hook.verdict # "null" \/ hook.error # "null"))

\* ------------------------------------------- one analysis, to its end
\* A page without a stored record whose user submits claims, resets and logs
\* out and in again, against a backend that answers every request and reports
\* a job as not finished for MaxHookTicks ticks at most.
TerminalReplies ==
    {data \in Replies : data.result # "ok" \/ data.status \in {"completed", "failed"}}

RepliesTo(req) == IF req.attempt < MaxHookTicks THEN Replies ELSE TerminalReplies

analyzeResponse == \E reply \in AnalyzeReplies : analyzeArrives(reply)

boundedStatusResponse ==
    \E req \in BagToSet(inflight) : \E data \in RepliesTo(req) :
        statusArrives(req, data) /\ hook' = hookSinks(hook, req.claimId, lastOp'.notified)

fetchAgentsResponse ==
    \E claimId \in BagToSet(hook.fetches), reply \in AgentReplies :
        fetchAgentsArrives(claimId, reply)

NextAnalyze ==
    \/ mount(HookToken)
    \/ \E t \in {NoToken, HookToken} : tokenChanges(t)
    \/ \E hasContent \in BOOLEAN : analyzeClaim(hasContent)
    \/ reset
    \/ analyzeResponse
    \/ tick
    \/ boundedStatusResponse
    \/ agentsResponse
    \/ fetchAgentsResponse

SpecAnalyze ==
    /\ InitWith(NoPointer)
    /\ [][NextAnalyze]_vars
    /\ WF_vars(analyzeResponse)
    /\ WF_vars(tick)
    /\ WF_vars(boundedStatusResponse)
    /\ WF_vars(agentsResponse)
    /\ WF_vars(fetchAgentsResponse)

\* C30: after an analyzeClaim call that sent its analyze request, loading
\* becomes false, whatever reset calls and token changes come in between, when
\* every request is answered and every timer fires.
C30_AnalyzeEndsLoading ==
    (lastOp.op = "analyzeClaim" /\ lastOp.detail = "sent") ~> ~hook.loading

\* C31: whenever a job with registered callbacks has a pending timer or a
\* status request awaiting its response, localStorage holds a record.
C31_PointerWhilePolling ==
    (\E j \in Jobs : callbacks[j] # NoCallbacks /\ Loops(j) > 0) => storage # NoPointer

\* C32: a processing response of the job the stored record names rewrites the
\* record with the same claimId, token and startTime; only attempt changes.
C32_TickKeepsStartTime ==
    [][(/\ lastOp'.op = "status" /\ lastOp'.detail = "processing"
        /\ callbacks[lastOp'.claimId] # NoCallbacks
        /\ storage # NoPointer
        /\ Pointer.claimId = lastOp'.claimId)
          => /\ storage' # NoPointer
             /\ Pointer'.claimId = Pointer.claimId
             /\ Pointer'.token = Pointer.token
             /\ Pointer'.startTime = Pointer.startTime]_vars

\* C33: when the status request of a job with registered callbacks throws,
\* onError is called with "Polling error".
C33_ThrowReportsPollingError ==
    [][(/\ lastOp'.op = "status"
        /\ lastOp'.detail \in {"throwError", "throwOther"}
        /\ callbacks[lastOp'.claimId] # NoCallbacks)
          => lastOp'.notified = <<[callbacks |-> callbacks[lastOp'.claimId],
                                   sink |-> "onError", arg |-> "Polling error"]>>]_vars

\* C33, amended: when the status request of a job with registered callbacks
\* throws an Error, onError is called with that Error's message; it is called
\* with "Polling error" when the thrown value is not an Error, and with
\* "Failed to fetch verdict" when the response is not a success.
C33_CatchReportsMessage ==
    [][(/\ lastOp'.op = "status"
        /\ lastOp'.detail \in {"throwError", "throwOther", "notOk"}
        /\ callbacks[lastOp'.claimId] # NoCallbacks)
          => lastOp'.notified =
                <<[callbacks |-> callbacks[lastOp'.claimId], sink |-> "onError",
                   arg |-> CASE lastOp'.detail = "throwError" -> lastOp'.message
                             [] lastOp'.detail = "throwOther" -> "Polling error"
                             [] OTHER -> "Failed to fetch verdict"]>>]_vars

\* The request of a job's third tick threw an Error and its message reached onError.
C33_ThirdTickThrew ==
    /\ lastOp.op = "status" /\ lastOp.detail = "throwError"
    /\ lastOp.message = "Failed to fetch"
    /\ executed[lastOp.claimId] = 3
    /\ Len(lastOp.notified) = 1
    /\ lastOp.notified[1].sink = "onError"
    /\ lastOp.notified[1].arg = "Failed to fetch"
    /\ Loops(lastOp.claimId) = 0

====
